---- MODULE Spec2Model ----
(***************************************************************************)
(* Black Notepad (src/black_notepad.py): the document session, the file    *)
(* operations with their unsaved-changes guard, the reading and writing of *)
(* text files, the find / replace control flow, the theme and the window's *)
(* chrome of MainWindow, modelled as a state machine.                      *)
(*                                                                         *)
(* The editor widget (QTextEdit), the dialogs and the file system are the  *)
(* environment.  Their answers are the inputs of the actions; the widget's *)
(* documented behaviour (cursor, selection, find, modified flag) is        *)
(* written out where the handlers call it.                                 *)
(*                                                                         *)
(* A document is a sequence of one-character strings.  Positions run from  *)
(* 0 to Len(text), as QTextCursor positions do.                            *)
(***************************************************************************)
EXTENDS Integers, Sequences, FiniteSets, TLC

VARIABLES
    text,           \* self.edit.toPlainText()
    anchor,         \* self.edit.textCursor().anchor()
    position,       \* self.edit.textCursor().position()
    modified,       \* self.edit.document().isModified()
    current_path,   \* self.current_path
    title,          \* self.windowTitle()
    disk,           \* the file system: path -> File(content) or NoFile
    recent,         \* the shell's recent documents, the latest last
    closed,         \* a close event was accepted
    out,            \* the last handler: its arguments, what it showed, its result
    pc,             \* "idle", or "replace_all" inside do_replace_all's loop
    is_dark,        \* self.is_dark
    custom_bg,      \* self.custom_bg
    custom_fg,      \* self.custom_fg
    editor_colors,  \* the colours of self.edit's style sheet
    app_palette,    \* the palette of the application
    credit_colors,  \* the colours of self.credit's style sheet
    window_state,   \* self.windowState(), the flags that are set
    max_icon,       \* the icon of self.btn_max
    _drag_pos,      \* self._drag_pos
    window_pos      \* self.frameGeometry().topLeft()

vars == <<text, anchor, position, modified, current_path, title, disk,
          recent, closed, out, pc, is_dark, custom_bg, custom_fg,
          editor_colors, app_palette, credit_colors, window_state, max_icon,
          _drag_pos, window_pos>>

(***************************************************************************)
(* Bounds of the model.                                                    *)
(***************************************************************************)
\* the longest document the user builds by typing
MaxLen == 1
\* the longest document a search or a replacement starts from
MaxDoc == 3

(***************************************************************************)
(* Values.                                                                 *)
(***************************************************************************)
\* no path: self.current_path is None, and the "" a cancelled picker returns
None == <<>>
\* a file on disk with its bytes, and the absence of one
File(t) == [exists |-> TRUE, data |-> t]
NoFile == [exists |-> FALSE, data |-> <<>>]
APP_NAME == "Black Notepad"

\* a path is its list of components
PathA == <<"docs", "a.txt">>
PathB == <<"work", "b.txt">>
Paths == {PathA, PathB}

\* os.path.basename
basename(p) == p[Len(p)]

Min(a, b) == IF a <= b THEN a ELSE b
Max(a, b) == IF a >= b THEN a ELSE b

\* the answers of QMessageBox.question in _maybe_save
Answers == {"Yes", "No", "Cancel"}
\* open(path, "w") raising, f.write raising after the file was truncated, or neither
WriteOutcomes == {"ok", "open_fails", "write_fails"}
ReadOutcomes == {"ok", "fails"}

\* what one handler run gets from the dialogs and the operating system
Inputs ==
    [ans : Answers, spick : Paths \cup {None}, opick : Paths \cup {None},
     wr : WriteOutcomes, rd : ReadOutcomes, reg : BOOLEAN]

\* no query: the handler is not one of the Find and Replace dialogs
NoQuery == [find |-> <<>>, repl |-> <<>>, opts |-> {}]

\* a QColor: whether it is valid, and its name "#rrggbb"; the dialog gives
\* an invalid one when it is dismissed
QColor(name) == [valid |-> TRUE, name |-> name]
NoColor == [valid |-> FALSE, name |-> "#000000"]

\* a point is <<x, y>>
Point(x, y) == <<x, y>>
Minus(p, q) == <<p[1] - q[1], p[2] - q[2]>>

\* an event: its type, the button that caused it, the buttons held and the
\* pointer's global position
NoEvent == [type |-> "None", button |-> "NoButton", buttons |-> {}, pos |-> Point(0, 0)]

\* the record of a handler: its arguments, what it showed and what it returned
NoOut(op) ==
    [op |-> op,
     q |-> NoQuery,          \* find_text, repl_text and opts of the dialog
     orig |-> <<>>,          \* the document when do_replace_all began
     prompt |-> "none",      \* the answer to "Save changes?", if it was asked
     save_dlg |-> "none",    \* getSaveFileName: none / cancel / picked
     open_dlg |-> "none",    \* getOpenFileName: none / cancel / picked
     wrote |-> None,         \* the path a write to which succeeded
     registered |-> <<>>,    \* the paths add_to_recent registered
     error |-> FALSE,        \* QMessageBox.critical "Save Error" was shown
     raised |-> FALSE,       \* an exception left the handler
     info |-> "none",        \* QMessageBox.information: none / nomatch / count
     found |-> "none",       \* what _find_once returned last: none / yes / no
     finds |-> 0,            \* calls of self.edit.find
     wrapped |-> FALSE,      \* _find_once moved the cursor to the start
     count |-> 0,            \* do_replace_all's count
     done |-> FALSE,         \* the handler ran to its end
     ev |-> NoEvent,         \* the event eventFilter was given
     filtered |-> FALSE,     \* what eventFilter returned
     pick |-> NoColor,       \* what QColorDialog.getColor returned
     chk_case |-> FALSE,     \* "Match case" was checked in the dialog
     chk_word |-> FALSE,     \* "Whole word" was checked in the dialog
     flags |-> {}]           \* the options self.edit.find was last called with

\* the window's state as one record, the handlers below map it to the next
Cur ==
    [text |-> text, anchor |-> anchor, position |-> position,
     modified |-> modified, current_path |-> current_path, title |-> title,
     disk |-> disk, recent |-> recent, closed |-> closed, out |-> out,
     is_dark |-> is_dark, custom_bg |-> custom_bg, custom_fg |-> custom_fg,
     editor_colors |-> editor_colors, app_palette |-> app_palette,
     credit_colors |-> credit_colors, window_state |-> window_state,
     max_icon |-> max_icon, _drag_pos |-> _drag_pos, window_pos |-> window_pos]

Install(s) ==
    /\ text' = s.text
    /\ anchor' = s.anchor
    /\ position' = s.position
    /\ modified' = s.modified
    /\ current_path' = s.current_path
    /\ title' = s.title
    /\ disk' = s.disk
    /\ recent' = s.recent
    /\ closed' = s.closed
    /\ out' = s.out
    /\ is_dark' = s.is_dark
    /\ custom_bg' = s.custom_bg
    /\ custom_fg' = s.custom_fg
    /\ editor_colors' = s.editor_colors
    /\ app_palette' = s.app_palette
    /\ credit_colors' = s.credit_colors
    /\ window_state' = s.window_state
    /\ max_icon' = s.max_icon
    /\ _drag_pos' = s._drag_pos
    /\ window_pos' = s.window_pos

(***************************************************************************)
(* Title.                                                                  *)
(***************************************************************************)
\* the title string f"{name}{dirty} - {APP_NAME}", kept as its parts
_update_title(s) ==
    [s EXCEPT !.title =
        [name |-> IF s.current_path # None THEN basename(s.current_path)
                  ELSE "Untitled",
         star |-> s.modified,
         app |-> APP_NAME]]

\* QTextDocument.setModified: modificationChanged fires only when the flag
\* flips, and it is connected to _update_title
setModified(s, m) ==
    IF s.modified = m THEN s
    ELSE _update_title([s EXCEPT !.modified = m])

\* a change of the document's content by the widget: the text and the
\* cursor change and the document becomes modified
doc_edit(s, newtext, newpos) ==
    setModified([s EXCEPT !.text = newtext, !.anchor = newpos,
                          !.position = newpos], TRUE)

\* QTextEdit.setPlainText / clear: the content is replaced, the cursor goes
\* to the start and the widget resets the modified flag
setPlainText(s, t) ==
    setModified([s EXCEPT !.text = t, !.anchor = 0, !.position = 0], FALSE)

(***************************************************************************)
(* Text files.  A file holds bytes.  A byte of an ASCII character is named *)
(* by the character, any other byte by its two hexadecimal digits; a       *)
(* character outside ASCII is named by its code point.                     *)
(***************************************************************************)
\* UTF-8 of the characters outside ASCII
Utf8 ==
    [c \in {"U+00E9", "U+0142", "U+3212", "U+CC55", "U+CCC9", "U+FFFD"} |->
        CASE c = "U+00E9" -> <<"C3", "A9">>
          [] c = "U+0142" -> <<"C5", "82">>
          [] c = "U+3212" -> <<"E3", "88", "92">>
          [] c = "U+CC55" -> <<"EC", "B1", "95">>
          [] c = "U+CCC9" -> <<"EC", "B3", "89">>
          [] c = "U+FFFD" -> <<"EF", "BF", "BD">>]

\* the bytes above 7F
HighBytes == UNION {{Utf8[c][i] : i \in 1..Len(Utf8[c])} : c \in DOMAIN Utf8} \cup {"FF"}

IsPrefix(p, b) == Len(p) <= Len(b) /\ SubSeq(b, 1, Len(p)) = p

\* str.encode("utf-8")
RECURSIVE utf8_encode(_)
utf8_encode(t) ==
    IF t = <<>> THEN <<>>
    ELSE (IF t[1] \in DOMAIN Utf8 THEN Utf8[t[1]] ELSE <<t[1]>>) \o utf8_encode(Tail(t))

\* bytes.decode("utf-8"), strict: ok is FALSE where it raises UnicodeDecodeError
RECURSIVE utf8_decode(_)
utf8_decode(b) ==
    IF b = <<>> THEN [ok |-> TRUE, text |-> <<>>]
    ELSE LET cs == {c \in DOMAIN Utf8 : IsPrefix(Utf8[c], b)}
         IN  IF cs # {}
             THEN LET c == CHOOSE x \in cs : TRUE
                      rest == utf8_decode(SubSeq(b, Len(Utf8[c]) + 1, Len(b)))
                  IN  [ok |-> rest.ok, text |-> <<c>> \o rest.text]
             ELSE IF b[1] \in HighBytes THEN [ok |-> FALSE, text |-> <<>>]
             ELSE LET rest == utf8_decode(Tail(b))
                  IN  [ok |-> rest.ok, text |-> <<b[1]>> \o rest.text]

\* the character of a lead and a trail byte in cp949, "" if there is none
cp949_char(lead, trail) ==
    CASE lead = "C3" /\ trail = "C3" -> "U+CCC9"
      [] lead = "C3" /\ trail = "A9" -> "U+CC55"
      [] lead = "A9" /\ trail = "C3" -> "U+3212"
      [] lead = "A9" /\ trail = "A9" -> "U+0142"
      [] OTHER -> ""

\* bytes.decode("cp949", errors="replace"): a byte that starts no character
\* becomes U+FFFD and the decoding goes on behind it
RECURSIVE cp949_decode_replace(_)
cp949_decode_replace(b) ==
    IF b = <<>> THEN <<>>
    ELSE IF b[1] \notin HighBytes THEN <<b[1]>> \o cp949_decode_replace(Tail(b))
    ELSE IF Len(b) >= 2 /\ cp949_char(b[1], b[2]) # ""
    THEN <<cp949_char(b[1], b[2])>> \o cp949_decode_replace(Tail(Tail(b)))
    ELSE <<"U+FFFD">> \o cp949_decode_replace(Tail(b))

\* os.linesep; ctypes.windll is there on Windows only
os_linesep == <<"\r", "\n">>

\* a file opened in text mode for writing: "\n" is written as os.linesep
RECURSIVE newline_out(_)
newline_out(t) ==
    IF t = <<>> THEN <<>>
    ELSE (IF t[1] = "\n" THEN os_linesep ELSE <<t[1]>>) \o newline_out(Tail(t))

\* reading a file opened in text mode with the identity for line ends
newline_in_off(t) == t

\* a file opened in text mode for reading: "\r\n" and "\r" are read as "\n"
RECURSIVE newline_in(_)
newline_in(t) ==
    IF t = <<>> THEN <<>>
    ELSE IF t[1] = "\r"
    THEN <<"\n">> \o newline_in(IF Len(t) >= 2 /\ t[2] = "\n" THEN Tail(Tail(t))
                                 ELSE Tail(t))
    ELSE <<t[1]>> \o newline_in(Tail(t))

\* the bytes f.write(t) puts in a file opened with open(path, "w", encoding="utf-8")
f_write(t) == utf8_encode(newline_out(t))

(***************************************************************************)
(* File operations.                                                        *)
(***************************************************************************)
\* add_to_recent without its try / except: the failure leaves it
add_to_recent_unprotected(s, path, io) ==
    IF io.reg
    THEN [s EXCEPT !.recent = Append(SelectSeq(@, LAMBDA q : q # path), path),
                   !.out.registered = Append(@, path)]
    ELSE [s EXCEPT !.out.raised = TRUE]

\* SHAddToRecentDocs puts the path at the head of the shell's list of recent
\* documents, which holds a path once; the try/except swallows a failure
add_to_recent(s, path, io) ==
    IF io.reg
    THEN [s EXCEPT !.recent = Append(SelectSeq(@, LAMBDA q : q # path), path),
                   !.out.registered = Append(@, path)]
    ELSE s

\* _write_to_path without its setModified(False)
_write_to_path_keeps_modified(s, path, io) ==
    IF io.wr = "ok"
    THEN LET s1 == [s EXCEPT !.disk[path] = File(f_write(s.text))]
             s3 == add_to_recent(s1, path, io)
         IN  [s |-> [s3 EXCEPT !.out.wrote = path], ret |-> TRUE]
    ELSE LET s1 == IF io.wr = "write_fails"
                   THEN [s EXCEPT !.disk[path] = File(<<>>)]
                   ELSE s
         IN  [s |-> [s1 EXCEPT !.out.error = TRUE], ret |-> FALSE]

\* each of the operations below gives [s |-> the state after, ret |-> its result]
_write_to_path(s, path, io) ==
    IF io.wr = "ok"
    THEN LET s1 == [s EXCEPT !.disk[path] = File(f_write(s.text))]
             s2 == setModified(s1, FALSE)
             s3 == add_to_recent(s2, path, io)
         IN  [s |-> [s3 EXCEPT !.out.wrote = path], ret |-> TRUE]
    ELSE LET s1 == IF io.wr = "write_fails"
                   THEN [s EXCEPT !.disk[path] = File(<<>>)]
                   ELSE s
         IN  [s |-> [s1 EXCEPT !.out.error = TRUE], ret |-> FALSE]

file_save_as(s, io) ==
    IF io.spick = None
    THEN [s |-> [s EXCEPT !.out.save_dlg = "cancel"], ret |-> FALSE]
    ELSE LET s1 == [s EXCEPT !.out.save_dlg = "picked",
                             !.current_path = io.spick]
             w == _write_to_path(s1, io.spick, io)
         IN  IF w.ret THEN [s |-> _update_title(w.s), ret |-> TRUE] ELSE w

\* file_save asking for the destination every time
file_save_always_asks(s, io) == file_save_as(s, io)

file_save(s, io) ==
    IF s.current_path = None
    THEN file_save_as(s, io)
    ELSE _write_to_path(s, s.current_path, io)

\* _maybe_save going on after a save that failed
_maybe_save_ignores_failed_save(s, io) ==
    IF s.modified
    THEN LET s1 == [s EXCEPT !.out.prompt = io.ans]
         IN  CASE io.ans = "Cancel" -> [s |-> s1, ret |-> FALSE]
               [] io.ans = "Yes" -> [s |-> file_save(s1, io).s, ret |-> TRUE]
               [] OTHER -> [s |-> s1, ret |-> TRUE]
    ELSE [s |-> s, ret |-> TRUE]

\* _maybe_save without the test for Cancel
_maybe_save_cancel_is_no(s, io) ==
    IF s.modified
    THEN LET s1 == [s EXCEPT !.out.prompt = io.ans]
         IN  IF io.ans = "Yes" THEN file_save(s1, io)
             ELSE [s |-> s1, ret |-> TRUE]
    ELSE [s |-> s, ret |-> TRUE]

_maybe_save(s, io) ==
    IF s.modified
    THEN LET s1 == [s EXCEPT !.out.prompt = io.ans]
         IN  CASE io.ans = "Cancel" -> [s |-> s1, ret |-> FALSE]
               [] io.ans = "Yes" -> file_save(s1, io)
               [] OTHER -> [s |-> s1, ret |-> TRUE]
    ELSE [s |-> s, ret |-> TRUE]

file_new(s, io) ==
    LET g == _maybe_save(s, io)
    IN  IF ~g.ret THEN g.s
        ELSE LET s1 == setPlainText(g.s, <<>>)
                 s2 == [s1 EXCEPT !.current_path = None]
                 s3 == setModified(s2, FALSE)
             IN  [_update_title(s3) EXCEPT !.out.done = TRUE]

\* the text _read_text_file returns: the file decoded as UTF-8 or, when
\* that raises UnicodeDecodeError, as cp949 with replacement characters; an
\* OSError of either open leaves it
_read_text_file(s, path) ==
    LET b == s.disk[path].data
        d == utf8_decode(b)
    IN  newline_in(IF d.ok THEN d.text ELSE cp949_decode_replace(b))

file_open(s, io) ==
    LET g == _maybe_save(s, io)
    IN  IF ~g.ret THEN g.s
        ELSE IF io.opick = None THEN [g.s EXCEPT !.out.open_dlg = "cancel"]
        ELSE IF io.rd = "fails"
        THEN [g.s EXCEPT !.out.open_dlg = "picked", !.out.raised = TRUE]
        ELSE LET s0 == [g.s EXCEPT !.out.open_dlg = "picked"]
                 s1 == setPlainText(s0, _read_text_file(s0, io.opick))
                 s2 == [s1 EXCEPT !.current_path = io.opick]
                 s3 == _update_title(setModified(s2, FALSE))
                 s4 == add_to_recent(s3, io.opick, io)
             IN  [s4 EXCEPT !.out.done = TRUE]

closeEvent(s, io) ==
    LET g == _maybe_save(s, io)
    IN  IF g.ret
        THEN [g.s EXCEPT !.closed = TRUE, !.out.done = TRUE]
        ELSE g.s

\* QWidget.close delivers a close event to the window
close(s, io) == closeEvent(s, io)

\* the three ways a close is asked for: File > Exit, the button in the menu
\* bar's corner, and the window system
exit_triggered(s, io) == close(s, io)
\* the close button wired to quit instead of close
btn_close_quits(s, io) == [s EXCEPT !.closed = TRUE, !.out.done = TRUE]

btn_close_clicked(s, io) == close(s, io)
os_close(s, io) == closeEvent(s, io)

\* insertText leaving the editor's cursor in front of the inserted text
insertText_keeps_position(s, t) ==
    LET lo == Min(s.anchor, s.position)
        hi == Max(s.anchor, s.position)
        new == SubSeq(s.text, 1, lo) \o t \o SubSeq(s.text, hi + 1, Len(s.text))
    IN  IF lo = hi /\ t = <<>> THEN s ELSE doc_edit(s, new, lo)

\* QTextCursor.insertText / QTextEdit.insertPlainText, and a key press: the
\* selection, if any, is removed, the text is inserted in its place and the
\* editor's cursor ends after it; removing nothing and inserting nothing
\* leaves the document as it is
insertText(s, t) ==
    LET lo == Min(s.anchor, s.position)
        hi == Max(s.anchor, s.position)
        new == SubSeq(s.text, 1, lo) \o t \o SubSeq(s.text, hi + 1, Len(s.text))
    IN  IF lo = hi /\ t = <<>> THEN s ELSE doc_edit(s, new, lo + Len(t))

insertPlainText(s, t) == insertText(s, t)

\* time.strftime("%H:%M %Y-%m-%d"), shortened to one character of it
TimeStamp == <<"1">>

insert_datetime(s) == insertPlainText(s, TimeStamp)

(***************************************************************************)
(* Find and replace.                                                       *)
(***************************************************************************)
Letters == {"a", "A", "b", "c", "C", "e", "n", "o", "t", "T"}
\* the characters of an opened document
Chars == {"a", " "}

\* QChar.toLower and QChar.isLetterOrNumber on the characters of the model
toLower(c) ==
    CASE c = "A" -> "a"
      [] c = "C" -> "c"
      [] c = "T" -> "t"
      [] OTHER -> c
isLetterOrNumber(c) == c \in Letters \cup {"1"}

\* options giving the flag of "Match case" only
options_case_only(chk_case, chk_word) ==
    IF chk_case THEN {"FindCaseSensitively"} ELSE {}

\* FindReplaceDialog.options: the flags of the two check boxes
options(chk_case, chk_word) ==
    (IF chk_case THEN {"FindCaseSensitively"} ELSE {})
        \cup (IF chk_word THEN {"FindWholeWords"} ELSE {})

\* the pattern stands in t at the (0-based) position idx
MatchAt(t, pat, idx, opts) ==
    /\ idx + Len(pat) <= Len(t)
    /\ \A k \in 1..Len(pat) :
          IF "FindCaseSensitively" \in opts
          THEN t[idx + k] = pat[k]
          ELSE toLower(t[idx + k]) = toLower(pat[k])

\* QString.indexOf(pat, offset, sensitivity): the first match at or after offset, or -1
indexOf(t, pat, offset, opts) ==
    LET hits == {i \in offset..Len(t) : MatchAt(t, pat, i, opts)}
    IN  IF hits = {} THEN -1
        ELSE CHOOSE i \in hits : \A j \in hits : i <= j

\* the test of FindWholeWords on a match at idx
WholeWord(t, pat, idx) ==
    LET end == idx + Len(pat)
    IN  /\ ~(idx # 0 /\ isLetterOrNumber(t[idx]))
        /\ ~(end # Len(t) /\ isLetterOrNumber(t[end + 1]))

\* QTextDocument's search of a block, forward: a match that is not a whole
\* word makes the search go on from one past its end
RECURSIVE findInBlock(_, _, _, _)
findInBlock(t, pat, offset, opts) ==
    IF offset > Len(t) THEN -1
    ELSE LET idx == indexOf(t, pat, offset, opts)
         IN  IF idx = -1 THEN -1
             ELSE IF "FindWholeWords" \in opts /\ ~WholeWord(t, pat, idx)
             THEN findInBlock(t, pat, idx + Len(pat) + 1, opts)
             ELSE idx

\* QTextEdit.find(exp, options): the search starts at the end of the
\* selection; a match becomes the selection, no match leaves the cursor
edit_find(s, pat, opts) ==
    LET s1 == [s EXCEPT !.out.finds = @ + 1, !.out.flags = opts]
        idx == IF pat = <<>> THEN -1
               ELSE findInBlock(s.text, pat, Max(s.anchor, s.position), opts)
    IN  IF idx = -1 THEN [s |-> s1, ret |-> FALSE]
        ELSE [s |-> [s1 EXCEPT !.anchor = idx, !.position = idx + Len(pat)],
              ret |-> TRUE]

\* cursor.movePosition(QTextCursor.Start); self.edit.setTextCursor(cursor)
cursor_to_start(s) == [s EXCEPT !.anchor = 0, !.position = 0]

\* _find_once without the second search from the start
_find_once_nowrap(s, pattern, opts) ==
    IF pattern = <<>> THEN [s |-> [s EXCEPT !.out.found = "no"], ret |-> FALSE]
    ELSE LET f1 == edit_find(s, pattern, opts)
         IN  IF f1.ret
             THEN [s |-> [f1.s EXCEPT !.out.found = "yes"], ret |-> TRUE]
             ELSE [s |-> [f1.s EXCEPT !.out.found = "no", !.out.info = "nomatch"],
                   ret |-> FALSE]

_find_once(s, pattern, opts) ==
    IF pattern = <<>> THEN [s |-> [s EXCEPT !.out.found = "no"], ret |-> FALSE]
    ELSE LET f1 == edit_find(s, pattern, opts)
             f2 == IF f1.ret THEN f1
                   ELSE edit_find([cursor_to_start(f1.s) EXCEPT !.out.wrapped = TRUE],
                                  pattern, opts)
         IN  IF f2.ret
             THEN [s |-> [f2.s EXCEPT !.out.found = "yes"], ret |-> TRUE]
             ELSE [s |-> [f2.s EXCEPT !.out.found = "no", !.out.info = "nomatch"],
                   ret |-> FALSE]

\* find_dialog, accepted with the pattern and the options of the dialog
find_dialog(s, q) ==
    [_find_once([s EXCEPT !.out.q = q], q.find, q.opts).s EXCEPT !.out.done = TRUE]

\* do_replace without the search that follows the replacement
do_replace_no_advance(s0, q) ==
    LET s == [s0 EXCEPT !.out.q = q]
        f == IF s.anchor = s.position
             THEN _find_once(s, q.find, q.opts)
             ELSE [s |-> s, ret |-> TRUE]
    IN  IF ~f.ret THEN f.s
        ELSE [(IF f.s.anchor # f.s.position
               THEN [insertText(f.s, q.repl) EXCEPT !.out.count = 1]
               ELSE f.s) EXCEPT !.out.done = TRUE]

\* replace_dialog's do_replace
do_replace(s0, q) ==
    LET s == [s0 EXCEPT !.out.q = q]
        f == IF s.anchor = s.position
             THEN _find_once(s, q.find, q.opts)
             ELSE [s |-> s, ret |-> TRUE]
    IN  IF ~f.ret THEN f.s
        ELSE LET s1 == IF f.s.anchor # f.s.position
                       THEN [insertText(f.s, q.repl) EXCEPT !.out.count = 1]
                       ELSE f.s
             IN  [_find_once(s1, q.find, q.opts).s EXCEPT !.out.done = TRUE]

\* do_replace_all searching from where the cursor is
do_replace_all_begin_from_cursor(s0, q) ==
    [s0 EXCEPT !.out.q = q, !.out.orig = s0.text]

\* replace_dialog's do_replace_all, up to its loop: nothing for an empty pattern
do_replace_all_begin(s0, q) ==
    LET s == [s0 EXCEPT !.out.q = q, !.out.orig = s0.text]
    IN  IF q.find = <<>> THEN s ELSE cursor_to_start(s)

\* one turn of "while self.edit.find(find_text, opts)": a match is replaced
\* and counted; no match ends the loop with the message of the count
do_replace_all_step(s, q) ==
    LET f == edit_find(s, q.find, q.opts)
    IN  IF f.ret
        THEN [s |-> IF f.s.anchor # f.s.position
                    THEN [insertText(f.s, q.repl) EXCEPT !.out.count = @ + 1]
                    ELSE f.s,
              ret |-> TRUE]
        ELSE [s |-> [f.s EXCEPT !.out.info = "count", !.out.done = TRUE],
              ret |-> FALSE]

(***************************************************************************)
(* View: the theme and the custom colours.                                 *)
(***************************************************************************)
view == <<is_dark, custom_bg, custom_fg, editor_colors, app_palette, credit_colors>>

\* Python's "a or b" on strings
or_default(a, b) == IF a # "" THEN a ELSE b

_apply_editor_colors(s, bg_hex, fg_hex, sel_hex) ==
    [s EXCEPT !.editor_colors = [bg |-> bg_hex, fg |-> fg_hex, sel |-> sel_hex]]

\* the dark palette built colour by colour, or the style's standard palette
_apply_app_palette(s, dark) ==
    [s EXCEPT !.app_palette = IF dark THEN "dark" ELSE "standard"]

_style_credit_link(s) ==
    [s EXCEPT !.credit_colors =
        IF s.is_dark THEN [base |-> "#a9a9a9", link |-> "#8AB4F8"]
        ELSE [base |-> "#333333", link |-> "#1A73E8"]]

_apply_theme(s, dark) ==
    LET s1 == [s EXCEPT !.is_dark = dark]
        s2 == IF dark
              THEN _apply_app_palette(
                       _apply_editor_colors(s1, or_default(s1.custom_bg, "#0f0f0f"),
                                            or_default(s1.custom_fg, "#e6e6e6"),
                                            "#3b6cff"), TRUE)
              ELSE _apply_app_palette(
                       _apply_editor_colors(s1, "#ffffff", "#000000", "#2a62ff"),
                       FALSE)
    IN  _style_credit_link(s2)

\* pick_bg storing the colour whether it is valid or not
pick_bg_accepts_invalid(s, col) ==
    _apply_theme([s EXCEPT !.out.pick = col, !.custom_bg = col.name], s.is_dark)

\* col is what QColorDialog.getColor returned
pick_bg(s, col) ==
    LET s1 == [s EXCEPT !.out.pick = col]
    IN  IF col.valid
        THEN _apply_theme([s1 EXCEPT !.custom_bg = col.name], s1.is_dark)
        ELSE s1

pick_fg(s, col) ==
    LET s1 == [s EXCEPT !.out.pick = col]
    IN  IF col.valid
        THEN _apply_theme([s1 EXCEPT !.custom_fg = col.name], s1.is_dark)
        ELSE s1

(***************************************************************************)
(* Chrome: the buttons in the menu bar's corner and the menu bar as the    *)
(* title bar.                                                              *)
(***************************************************************************)
chrome == <<window_state, max_icon, _drag_pos, window_pos>>

WindowStates == SUBSET {"WindowMinimized", "WindowMaximized"}

isMaximized(s) == "WindowMaximized" \in s.window_state
isMinimized(s) == "WindowMinimized" \in s.window_state

_update_max_icon(s) ==
    [s EXCEPT !.max_icon = IF isMaximized(s) THEN "SP_TitleBarNormalButton"
                           ELSE "SP_TitleBarMaxButton"]

WindowStateChange == [NoEvent EXCEPT !.type = "WindowStateChange"]

\* changeEvent leaving the icon alone
changeEvent_keeps_icon(s, e) == s

\* btn_max exists once the window is constructed
changeEvent(s, e) ==
    IF e.type = "WindowStateChange" THEN _update_max_icon(s) ELSE s

\* QWidget.setWindowState: a state that differs from the present one is set
\* and the window is sent a WindowStateChange event
setWindowState(s, st) ==
    IF st = s.window_state THEN s
    ELSE changeEvent([s EXCEPT !.window_state = st], WindowStateChange)

showNormal(s) ==
    setWindowState(s, s.window_state \ {"WindowMinimized", "WindowMaximized"})
showMaximized(s) ==
    setWindowState(s, (s.window_state \ {"WindowMinimized"}) \cup {"WindowMaximized"})
showMinimized(s) ==
    setWindowState(s, s.window_state \cup {"WindowMinimized"})

_toggle_max_restore(s) ==
    _update_max_icon(IF isMaximized(s) THEN showNormal(s) ELSE showMaximized(s))

\* QWidget.move
move(s, p) == [s EXCEPT !.window_pos = p]

\* eventFilter forgetting the release
eventFilter_keeps_drag(s, event) ==
    CASE event.type = "MouseButtonPress" /\ event.button = "LeftButton" ->
            [s |-> [s EXCEPT !._drag_pos = Minus(event.pos, s.window_pos)],
             ret |-> FALSE]
      [] event.type = "MouseMove" /\ "LeftButton" \in event.buttons
            /\ s._drag_pos # None ->
            [s |-> move(s, Minus(event.pos, s._drag_pos)), ret |-> TRUE]
      [] event.type = "MouseButtonDblClick" /\ event.button = "LeftButton" ->
            [s |-> _toggle_max_restore(s), ret |-> TRUE]
      [] OTHER -> [s |-> s, ret |-> FALSE]

\* eventFilter for an event of the menu bar, the one object it is installed
\* on; the tests are tried in the order of the if / elif chain
eventFilter(s, event) ==
    IF event.type = "MouseButtonPress" /\ event.button = "LeftButton"
    THEN [s |-> [s EXCEPT !._drag_pos = Minus(event.pos, s.window_pos)],
          ret |-> FALSE]
    ELSE IF event.type = "MouseMove" /\ "LeftButton" \in event.buttons
            /\ s._drag_pos # None
    THEN [s |-> move(s, Minus(event.pos, s._drag_pos)), ret |-> TRUE]
    ELSE IF event.type = "MouseButtonRelease"
    THEN [s |-> [s EXCEPT !._drag_pos = None], ret |-> FALSE]
    ELSE IF event.type = "MouseButtonDblClick" /\ event.button = "LeftButton"
    THEN [s |-> _toggle_max_restore(s), ret |-> TRUE]
    ELSE [s |-> s, ret |-> FALSE]

\* the window as __init__ leaves it: the dark theme applied with the
\* colours it starts with, the window neither maximized nor minimized
InitWindow ==
    /\ is_dark = TRUE
    /\ custom_bg = "#0f0f0f"
    /\ custom_fg = "#e6e6e6"
    /\ editor_colors = [bg |-> "#0f0f0f", fg |-> "#e6e6e6", sel |-> "#3b6cff"]
    /\ app_palette = "dark"
    /\ credit_colors = [base |-> "#a9a9a9", link |-> "#8AB4F8"]
    /\ window_state = {}
    /\ max_icon = "SP_TitleBarMaxButton"
    /\ _drag_pos = None
    /\ window_pos = Point(0, 0)

(***************************************************************************)
(* The session: typing and the File menu.                                  *)
(***************************************************************************)
Idle == pc = "idle" /\ ~closed

\* The inputs a handler can consult, the others held at a fixed value: the
\* prompt is asked of a modified document only, a save follows the answer
\* Yes only, the destination is asked for when there is no path (and by
\* Save As), getOpenFileName returns an existing file or nothing, a read
\* follows a picked file only, and a path is registered after a write or a
\* read that succeeded.
Guarded == {"new", "open", "exit", "close_button", "os_close"}
Saves(op, io) ==
    IF op \in Guarded THEN modified /\ io.ans = "Yes" ELSE TRUE
Consulted(op, io) ==
    /\ IF op \in Guarded /\ modified THEN TRUE ELSE io.ans = "Yes"
    /\ IF Saves(op, io) /\ (op = "save_as" \/ current_path = None)
       THEN TRUE ELSE io.spick = None
    /\ IF Saves(op, io) /\ (current_path # None \/ io.spick # None)
       THEN TRUE ELSE io.wr = "ok"
    /\ IF \/ Saves(op, io) /\ (current_path # None \/ io.spick # None) /\ io.wr = "ok"
          \/ op = "open" /\ io.opick # None /\ io.rd = "ok"
       THEN TRUE ELSE io.reg
    /\ IF op = "open" THEN TRUE ELSE io.opick = None
    /\ IF io.opick = None THEN io.rd = "ok" ELSE disk[io.opick].exists
InputsFor(op) == {io \in Inputs : Consulted(op, io)}

\* the keys the user presses
TypeChars == {"1"}

Type ==
    /\ Idle
    /\ Len(text) < MaxLen
    /\ \E c \in TypeChars :
          Install([insertPlainText(Cur, <<c>>) EXCEPT !.out = NoOut("type")])
    /\ UNCHANGED pc

InsertDateTime ==
    /\ Idle
    /\ Len(text) < MaxLen
    /\ Install(insert_datetime([Cur EXCEPT !.out = NoOut("insert_datetime")]))
    /\ UNCHANGED pc

FileNew ==
    /\ Idle
    /\ \E io \in InputsFor("new") :
          Install(file_new([Cur EXCEPT !.out = NoOut("new")], io))
    /\ UNCHANGED pc

FileOpen ==
    /\ Idle
    /\ \E io \in InputsFor("open") :
          Install(file_open([Cur EXCEPT !.out = NoOut("open")], io))
    /\ UNCHANGED pc

FileSave ==
    /\ Idle
    /\ \E io \in InputsFor("save") :
          LET r == file_save([Cur EXCEPT !.out = NoOut("save")], io)
          IN  Install([r.s EXCEPT !.out.done = r.ret])
    /\ UNCHANGED pc

FileSaveAs ==
    /\ Idle
    /\ \E io \in InputsFor("save_as") :
          LET r == file_save_as([Cur EXCEPT !.out = NoOut("save_as")], io)
          IN  Install([r.s EXCEPT !.out.done = r.ret])
    /\ UNCHANGED pc

ExitMenu ==
    /\ Idle
    /\ \E io \in InputsFor("exit") :
          Install(exit_triggered([Cur EXCEPT !.out = NoOut("exit")], io))
    /\ UNCHANGED pc

CloseButton ==
    /\ Idle
    /\ \E io \in InputsFor("close_button") :
          Install(btn_close_clicked([Cur EXCEPT !.out = NoOut("close_button")], io))
    /\ UNCHANGED pc

OsClose ==
    /\ Idle
    /\ \E io \in InputsFor("os_close") :
          Install(os_close([Cur EXCEPT !.out = NoOut("os_close")], io))
    /\ UNCHANGED pc

(***************************************************************************)
(* The Find and Replace dialogs.                                           *)
(***************************************************************************)
RECURSIVE SeqsUpTo(_, _)
SeqsUpTo(S, n) ==
    IF n = 0 THEN {<<>>}
    ELSE LET shorter == SeqsUpTo(S, n - 1)
         IN  shorter \cup {Append(w, c) : w \in shorter, c \in S}

\* the queries of the dialogs: the pattern (of letters, or empty), the
\* replacement and the check boxes; a replacement may hold the pattern
Patterns == {<<>>, <<"a">>, <<"A">>, <<"a", "a">>}
Replacements == {<<>>, <<"b", "b">>, <<"a", "a">>}
Queries ==
    [find : Patterns, repl : Replacements,
     opts : {options(c, w) : c \in BOOLEAN, w \in BOOLEAN}]
\* the queries tried on a typed document
SessionQueries == {[find |-> <<"1">>, repl |-> <<>>, opts |-> options(FALSE, FALSE)]}

DocOk == Len(text) <= MaxDoc

\* the user places the cursor or selects with the mouse
SetCursor ==
    /\ Idle /\ DocOk
    /\ \E a \in 0..Len(text), p \in 0..Len(text) :
          /\ anchor' = a
          /\ position' = p
    /\ out' = NoOut("select")
    /\ UNCHANGED <<text, modified, current_path, title, disk, recent, closed, pc,
                   view, chrome>>

FindNext(Q) ==
    /\ Idle /\ DocOk
    /\ \E q \in Q :
          Install(find_dialog([Cur EXCEPT !.out = NoOut("find")], q))
    /\ UNCHANGED pc

Replace(Q) ==
    /\ Idle /\ DocOk
    /\ \E q \in Q :
          Install(do_replace([Cur EXCEPT !.out = NoOut("replace")], q))
    /\ UNCHANGED pc

ReplaceAllBegin(Q) ==
    /\ Idle /\ DocOk
    /\ \E q \in Q :
          /\ Install(do_replace_all_begin([Cur EXCEPT !.out = NoOut("replace_all")], q))
          /\ pc' = IF q.find = <<>> THEN "idle" ELSE "replace_all"

ReplaceAllStep ==
    /\ pc = "replace_all"
    /\ LET r == do_replace_all_step(Cur, out.q)
       IN  /\ Install(r.s)
           /\ pc' = IF r.ret THEN "replace_all" ELSE "idle"


Init ==
    /\ text = <<>>
    /\ anchor = 0
    /\ position = 0
    /\ modified = FALSE
    /\ current_path = None
    /\ title = [name |-> "Untitled", star |-> FALSE, app |-> APP_NAME]
    /\ disk = [p \in Paths |-> IF p = PathA THEN File(<<"1">>) ELSE NoFile]
    /\ recent = <<>>
    /\ closed = FALSE
    /\ out = NoOut("init")
    /\ pc = "idle"
    /\ InitWindow

Next ==
    \/ Type
    \/ InsertDateTime
    \/ FileNew
    \/ FileOpen
    \/ FileSave
    \/ FileSaveAs
    \/ ExitMenu
    \/ CloseButton
    \/ OsClose
    \/ Replace(SessionQueries)
    \/ ReplaceAllBegin(SessionQueries)
    \/ ReplaceAllStep

Spec == Init /\ [][Next]_vars

(***************************************************************************)
(* The properties of the session, checked under Spec.  A step is read off  *)
(* the record out' of the handler that took it.                            *)
(***************************************************************************)
CloseOps == {"exit", "close_button", "os_close"}

\* the save that the answer Yes led to stored the text as it was
SavedDirtyText == out'.wrote # None /\ disk'[out'.wrote] = File(f_write(text))

\* the handler went on to clear, replace or close
Discarded == out'.done \/ closed' \/ text' # text

\* C1: New, Open and Close discard the text of a modified document only
\* after the prompt was answered No, or Yes with a save that stored the
\* text; after Cancel, or Yes with a save that failed or was cancelled, the
\* handler stops with the text, the dirty flag and the window as they were.
C1_DiscardOnlyAfterGuard ==
    [][(modified /\ out'.op \in Guarded) =>
          /\ Discarded =>
                \/ out'.prompt = "No"
                \/ out'.prompt = "Yes" /\ SavedDirtyText
          /\ (out'.prompt = "Cancel" \/ (out'.prompt = "Yes" /\ out'.wrote = None)) =>
                /\ text' = text
                /\ modified'
                /\ ~closed'
                /\ ~out'.done]_vars

\* Open after Yes: the typed text is on disk and the editor shows the file opened
C1_Witness ==
    /\ out.op = "open" /\ out.prompt = "Yes" /\ out.done
    /\ out.wrote # None
    /\ disk[out.wrote] # File(f_write(text))

C3_WriteFailureKeepsSession ==
    [][out'.error =>
          /\ ~out'.done
          /\ current_path' = current_path
          /\ modified' = modified]_vars

\* a dialog of the handler was dismissed
Cancelled ==
    \/ out'.prompt = "Cancel"
    \/ out'.save_dlg = "cancel"
    \/ out'.open_dlg = "cancel"

\* C4 as stated: a dismissed dialog leaves text, path, dirty flag and the
\* files on disk as they were when the action was invoked.
C4_CancelChangesNothing ==
    [][Cancelled => UNCHANGED <<text, current_path, modified, disk, closed>>]_vars

\* C4 amended: a dismissed dialog leaves text, path, dirty flag and files
\* as they were, except when Open's file picker is dismissed after the
\* prompt was answered Yes and the save succeeded: then the text is
\* unchanged and the state is the one the save left (the text written to
\* the path saved to, that path current, the dirty flag cleared).
C4_CancelKeepsAllButTheSave ==
    [][Cancelled =>
          IF out'.wrote = None
          THEN UNCHANGED <<text, current_path, modified, disk, closed>>
          ELSE /\ out'.op = "open"
               /\ out'.prompt = "Yes"
               /\ out'.open_dlg = "cancel"
               /\ modified
               /\ current_path # None => out'.wrote = current_path
               /\ UNCHANGED <<text, closed>>
               /\ ~modified'
               /\ current_path' = out'.wrote
               /\ disk' = [disk EXCEPT ![out'.wrote] = File(f_write(text))]]_vars

\* Open: Yes, the save succeeded, then the file picker was dismissed
C4_Witness ==
    /\ out.op = "open" /\ out.prompt = "Yes" /\ out.open_dlg = "cancel"
    /\ out.wrote # None
    /\ ~modified
    /\ disk[out.wrote] = File(f_write(text))

\* C5: Save without a path asks for the destination, writes nowhere but
\* to the path picked, and when the picker is dismissed writes nothing,
\* fails and keeps dirty flag and path; Save with a path writes the text to
\* that path and asks nothing.
C5_SaveDestination ==
    [][out'.op = "save" =>
          IF current_path = None
          THEN /\ out'.save_dlg # "none"
               /\ out'.save_dlg = "cancel" =>
                     /\ ~out'.done
                     /\ out'.wrote = None
                     /\ UNCHANGED <<disk, modified, current_path>>
               /\ \A p \in Paths :
                     disk'[p] # disk[p] =>
                        out'.save_dlg = "picked" /\ p = current_path'
               /\ out'.done => out'.wrote = current_path' /\ disk'[current_path'] = File(f_write(text))
          ELSE /\ out'.save_dlg = "none"
               /\ current_path' = current_path
               /\ \A p \in Paths \ {current_path} : disk'[p] = disk[p]
               /\ out'.done => out'.wrote = current_path /\ disk'[current_path] = File(f_write(text))]_vars

\* Save of an untitled modified document, the picker dismissed
C5_Witness ==
    /\ out.op = "save" /\ out.save_dlg = "cancel"
    /\ modified
    /\ current_path = None
    /\ text # <<>>

\* C6: every close request for a modified document asks the prompt; after
\* Cancel the window stays open with text, path and dirty flag unchanged;
\* the window closes only for an unmodified document, after No, or after
\* Yes and a successful save.
C6_CloseIsGuarded ==
    [][out'.op \in CloseOps =>
          /\ modified => out'.prompt # "none"
          /\ out'.prompt = "Cancel" =>
                ~closed' /\ UNCHANGED <<text, current_path, modified>>
          /\ closed' =>
                \/ ~modified
                \/ out'.prompt = "No"
                \/ out'.prompt = "Yes" /\ SavedDirtyText]_vars

\* the close button, the prompt answered Cancel
C6_Witness ==
    /\ out.op = "close_button" /\ out.prompt = "Cancel"
    /\ modified
    /\ ~closed

\* a document of up to MaxDoc characters was opened; the user searches,
\* replaces and moves the cursor
InitFind ==
    /\ text \in SeqsUpTo(Chars, MaxDoc)
    /\ anchor = 0
    /\ position = 0
    /\ modified = FALSE
    /\ current_path = PathA
    /\ title = [name |-> basename(PathA), star |-> FALSE, app |-> APP_NAME]
    /\ disk = [p \in Paths |-> IF p = PathA THEN File(f_write(text)) ELSE NoFile]
    /\ recent = <<PathA>>
    /\ closed = FALSE
    /\ out = NoOut("init")
    /\ pc = "idle"
    /\ InitWindow

\* A handler starts by clearing the record of the one before, so what it
\* does is the same from a state and from that state after a click at the
\* cursor's place (SetCursor with the anchor and position as they are).  The
\* dialogs are therefore tried in the states a click has left.
Clicked == out.op \in {"init", "select"}
FindQueries == IF Clicked THEN {q \in Queries : q.repl = <<>>} ELSE {}
ReplaceQueries == IF Clicked THEN Queries ELSE {}

NextFind ==
    \/ SetCursor
    \/ FindNext(FindQueries)
    \/ Replace(ReplaceQueries)
    \/ ReplaceAllBegin(ReplaceQueries)
    \/ ReplaceAllStep

SpecFind == InitFind /\ [][NextFind]_vars

(***************************************************************************)
(* The properties of find and replace, checked under SpecFind.             *)
(***************************************************************************)
\* the pattern occurs at position i of t: it stands there and, with
\* FindWholeWords, no letter or digit is next to it
Occurs(t, pat, i, opts) ==
    /\ MatchAt(t, pat, i, opts)
    /\ "FindWholeWords" \in opts => WholeWord(t, pat, i)

Occurrences(t, pat, opts) == {i \in 0..Len(t) : Occurs(t, pat, i, opts)}

Least(S) == CHOOSE i \in S : \A j \in S : i <= j

\* C7: Find Next for a pattern that is nowhere in the document leaves the
\* cursor and the selection as they were.
C7_NoMatchKeepsCursor ==
    [][(out'.op = "find" /\ out'.info = "nomatch") =>
          /\ out'.found = "no"
          /\ anchor' = anchor
          /\ position' = position]_vars

\* C8: Find Next selects the first occurrence at or after the end of the
\* selection; when there is none but the pattern occurs, it searches once
\* more from the start and selects the first occurrence of the document;
\* it calls the search at most twice.
C8_FindWrapsOnce ==
    [][(out'.op = "find" /\ out'.q.find # <<>>) =>
          LET pat == out'.q.find
              occ == Occurrences(text, pat, out'.q.opts)
              ahead == {i \in occ : i >= Max(anchor, position)}
          IN  /\ out'.finds <= 2
              /\ out'.wrapped <=> out'.finds = 2
              /\ ahead # {} =>
                    /\ out'.found = "yes" /\ ~out'.wrapped
                    /\ anchor' = Least(ahead)
                    /\ position' = Least(ahead) + Len(pat)
              /\ (ahead = {} /\ occ # {}) =>
                    /\ out'.found = "yes" /\ out'.wrapped
                    /\ anchor' = Least(occ)
                    /\ position' = Least(occ) + Len(pat)
              /\ occ = {} => out'.found = "no"
              /\ text' = text]_vars

\* the search started behind the last occurrence and found the first one
C8_Witness ==
    /\ out.op = "find" /\ out.found = "yes" /\ out.wrapped
    /\ out.q.find = <<"a">>
    /\ text = <<"a", " ", "a">>
    /\ anchor = 0 /\ position = 1

\* the document with every occurrence of the pattern, taken from left to
\* right without overlap from position i on, replaced; and their number
RECURSIVE Replaced(_, _, _)
Replaced(t, q, i) ==
    IF i >= Len(t) THEN <<>>
    ELSE IF Occurs(t, q.find, i, q.opts)
    THEN q.repl \o Replaced(t, q, i + Len(q.find))
    ELSE <<t[i + 1]>> \o Replaced(t, q, i + 1)

RECURSIVE Replacements_count(_, _, _)
Replacements_count(t, q, i) ==
    IF i >= Len(t) THEN 0
    ELSE IF Occurs(t, q.find, i, q.opts)
    THEN 1 + Replacements_count(t, q, i + Len(q.find))
    ELSE Replacements_count(t, q, i + 1)

\* C9: when Replace All with a non-empty pattern has ended, the document
\* is the one it began with, every occurrence of the pattern from the start
\* of the document replaced, and the count reported is their number.
C9_ReplaceAllResult ==
    (out.op = "replace_all" /\ out.q.find # <<>> /\ pc = "idle") =>
        /\ out.done
        /\ out.info = "count"
        /\ text = Replaced(out.orig, out.q, 0)
        /\ out.count = Replacements_count(out.orig, out.q, 0)

\* "a" replaced by "bb" in "aaa"
C9_Witness ==
    /\ out.op = "replace_all" /\ out.done
    /\ out.q.find = <<"a">> /\ out.q.repl = <<"b", "b">>
    /\ out.orig = <<"a", "a", "a">>
    /\ text = <<"b", "b", "b", "b", "b", "b">>
    /\ out.count = 3

\* C10: every turn of Replace All's loop either replaces an occurrence at
\* or after the search position and leaves the cursor behind the inserted
\* text, with less of the document left to search than before, or finds
\* nothing and ends the loop; the cursor is never moved back to the start.
C10_ReplaceAllAdvances ==
    [][pc = "replace_all" =>
          LET from == Max(anchor, position)
              pat == out.q.find
              rep == out.q.repl
          IN  /\ ~out'.wrapped
              /\ IF pc' = "replace_all"
                 THEN /\ \E idx \in from..Len(text) :
                            /\ Occurs(text, pat, idx, out.q.opts)
                            /\ text' = SubSeq(text, 1, idx) \o rep
                                           \o SubSeq(text, idx + Len(pat) + 1, Len(text))
                            /\ anchor' = idx + Len(rep)
                            /\ position' = idx + Len(rep)
                      /\ out'.count = out.count + 1
                      /\ Len(text') - position' < Len(text) - from
                 ELSE /\ pc' = "idle"
                      /\ UNCHANGED <<text, anchor, position>>]_vars

\* "a" replaced by "aa" in "aaa": the loop has ended after three turns
C10_Witness ==
    /\ out.op = "replace_all" /\ out.done /\ pc = "idle"
    /\ out.q.find = <<"a">> /\ out.q.repl = <<"a", "a">>
    /\ out.orig = <<"a", "a", "a">>
    /\ text = <<"a", "a", "a", "a", "a", "a">>
    /\ out.count = 3

\* the document t with the Len(pat) characters at position idx replaced by rep
Subst(t, idx, pat, rep) ==
    SubSeq(t, 1, idx) \o rep \o SubSeq(t, idx + Len(pat) + 1, Len(t))

\* C11: Find Next, Replace and Replace All called with an empty pattern find
\* nothing, replace nothing and leave the text of the document as it was,
\* whatever the cursor, the selection and the replacement.
C11_EmptyPatternIsNoOp ==
    [][(out'.op \in {"find", "replace", "replace_all"} /\ out'.q.find = <<>>) =>
          /\ out'.found # "yes"
          /\ out'.count = 0
          /\ text' = text]_vars

\* C12: Replace with a non-empty pattern changes the document only by
\* putting the replacement in the place of an occurrence of the pattern; a
\* selection that is not an occurrence of the pattern is not replaced.
C12_ReplacesOnlyItsMatch ==
    [][(out'.op = "replace" /\ out'.q.find # <<>> /\ text' # text) =>
          \E idx \in Occurrences(text, out'.q.find, out'.q.opts) :
              text' = Subst(text, idx, out'.q.find, out'.q.repl)]_vars

(***************************************************************************)
(* The View menu and the window's chrome.                                  *)
(***************************************************************************)
\* the colours the user picks in QColorDialog, or none when it is dismissed
ColorPicks == {NoColor, QColor("#ff0000"), QColor("#0000ff")}

ThemeLight ==
    /\ Idle
    /\ Install(_apply_theme([Cur EXCEPT !.out = NoOut("theme_light")], FALSE))
    /\ UNCHANGED pc

ThemeDark ==
    /\ Idle
    /\ Install(_apply_theme([Cur EXCEPT !.out = NoOut("theme_dark")], TRUE))
    /\ UNCHANGED pc

PickBg ==
    /\ Idle
    /\ \E col \in ColorPicks :
          Install(pick_bg([Cur EXCEPT !.out = NoOut("pick_bg")], col))
    /\ UNCHANGED pc

PickFg ==
    /\ Idle
    /\ \E col \in ColorPicks :
          Install(pick_fg([Cur EXCEPT !.out = NoOut("pick_fg")], col))
    /\ UNCHANGED pc

NextView ==
    \/ Type
    \/ FileSave
    \/ FileOpen
    \/ ThemeLight
    \/ ThemeDark
    \/ PickBg
    \/ PickFg

SpecView == Init /\ [][NextView]_vars

\* the pointer's coordinates on the screen run from 0 to MaxCoord
MaxCoord == 2
\* the menu bar reaches MenuBarExtent to the right of and below the window's origin
MenuBarExtent == 1

Points == {Point(x, y) : x \in 0..MaxCoord, y \in 0..MaxCoord}

\* the pointer is over the menu bar
OverMenuBar(p) ==
    LET d == Minus(p, window_pos)
    IN  d[1] \in 0..MenuBarExtent /\ d[2] \in 0..MenuBarExtent

\* The mouse events of the menu bar.  A press and a double click reach it
\* with the pointer over it; moves and releases reach it wherever the
\* pointer is while it holds the mouse.  A press leaves its button held,
\* a release does not.
Buttons == {"LeftButton", "RightButton"}
MouseEvents ==
    {e \in [type : {"MouseButtonPress", "MouseMove", "MouseButtonRelease",
                    "MouseButtonDblClick"},
            button : Buttons \cup {"NoButton"},
            buttons : {{}, {"LeftButton"}, {"RightButton"}},
            pos : Points] :
        /\ (e.type = "MouseMove") = (e.button = "NoButton")
        /\ e.type \in {"MouseButtonPress", "MouseButtonDblClick"} =>
              e.buttons = {e.button} /\ OverMenuBar(e.pos)
        /\ e.type = "MouseButtonRelease" => e.button \notin e.buttons}

Visible == Idle /\ ~isMinimized(Cur)

MenuBarEvent ==
    /\ Visible
    /\ \E e \in MouseEvents :
          LET r == eventFilter([Cur EXCEPT !.out = [NoOut("event") EXCEPT !.ev = e]], e)
          IN  Install([r.s EXCEPT !.out.filtered = r.ret])
    /\ UNCHANGED pc

MinButton ==
    /\ Visible
    /\ Install(showMinimized([Cur EXCEPT !.out = NoOut("btn_min")]))
    /\ UNCHANGED pc

MaxButton ==
    /\ Visible
    /\ Install(_toggle_max_restore([Cur EXCEPT !.out = NoOut("btn_max")]))
    /\ UNCHANGED pc

\* the window system maximizes, minimizes or restores the window and the
\* window is sent the WindowStateChange event
WindowSystem ==
    /\ Idle
    /\ \E st \in WindowStates \ {window_state} :
          Install(changeEvent([Cur EXCEPT !.out = NoOut("window_system"),
                                          !.window_state = st],
                              WindowStateChange))
    /\ UNCHANGED pc

NextChrome ==
    \/ MenuBarEvent
    \/ MinButton
    \/ MaxButton
    \/ WindowSystem

SpecChrome == Init /\ [][NextChrome]_vars

(***************************************************************************)
(* The properties of the view, checked under SpecView.                     *)
(***************************************************************************)
\* the user has picked the colour and no other since
PickedBg == custom_bg # "#0f0f0f"
PickedFg == custom_fg # "#e6e6e6"

\* C13: once a background colour was picked the editor's background is that
\* colour in the light theme as in the dark one, and foreground and
\* selection are the theme's unless a foreground was picked too; the picked
\* colours stay stored through every switch of the theme.
C13_CustomColoursAreSticky ==
    /\ PickedBg => editor_colors.bg = custom_bg
    /\ PickedFg => editor_colors.fg = custom_fg
    /\ (~is_dark /\ ~PickedFg) => editor_colors.fg = "#000000"
    /\ ~is_dark => editor_colors.sel = "#2a62ff"

\* C19: the theme actions and the colour pickers leave text, path and dirty
\* flag alone; a dismissed picker leaves the stored colours, the mode and
\* the colours shown as they were; an accepted pick stores the colour,
\* keeps the other colour and the mode, and shows the theme of that mode.
C19_ThemeKeepsSession ==
    [][out'.op \in {"theme_light", "theme_dark", "pick_bg", "pick_fg"} =>
          /\ UNCHANGED <<text, anchor, position, modified, current_path, title,
                         disk, recent, closed>>
          /\ out'.op = "theme_light" => ~is_dark' /\ UNCHANGED <<custom_bg, custom_fg>>
          /\ out'.op = "theme_dark" => is_dark' /\ UNCHANGED <<custom_bg, custom_fg>>
          /\ (out'.op \in {"pick_bg", "pick_fg"} /\ ~out'.pick.valid) => UNCHANGED view
          /\ (out'.op = "pick_bg" /\ out'.pick.valid) =>
                /\ custom_bg' = out'.pick.name
                /\ UNCHANGED <<custom_fg, is_dark>>
                /\ is_dark => editor_colors'.bg = out'.pick.name
          /\ (out'.op = "pick_fg" /\ out'.pick.valid) =>
                /\ custom_fg' = out'.pick.name
                /\ UNCHANGED <<custom_bg, is_dark>>
                /\ is_dark => editor_colors'.fg = out'.pick.name
          /\ app_palette' = (IF is_dark' THEN "dark" ELSE "standard")]_vars

\* the colour dialog dismissed over a modified, saved document in the light theme
C19_Witness ==
    /\ out.op = "pick_bg" /\ ~out.pick.valid
    /\ modified /\ text # <<>>
    /\ ~is_dark
    /\ PickedBg

(***************************************************************************)
(* The properties of the chrome, checked under SpecChrome.                 *)
(***************************************************************************)
\* C14: in every state the maximize button shows the restore icon if the
\* window is maximized and the maximize icon if it is not.
C14_MaxIconInSync ==
    max_icon = (IF "WindowMaximized" \in window_state THEN "SP_TitleBarNormalButton"
                ELSE "SP_TitleBarMaxButton")

\* the window system has maximized the window
C14_Witness ==
    /\ out.op = "window_system"
    /\ "WindowMaximized" \in window_state
    /\ max_icon = "SP_TitleBarNormalButton"

\* C20: a press of the left button stores the pointer's offset from the
\* window's origin; a move with the left button held and an offset stored
\* puts the window where the pointer is at that offset again; a release
\* clears the offset; a move with no offset stored leaves the window where
\* it is; a double click of the left button maximizes the window or
\* restores it; nothing else moves the window or changes the offset.
C20_DragStateMachine ==
    [][out'.op = "event" =>
          LET e == out'.ev
              maximized == "WindowMaximized" \in window_state
          IN  CASE e.type = "MouseButtonPress" /\ e.button = "LeftButton" ->
                      /\ _drag_pos' = Minus(e.pos, window_pos)
                      /\ UNCHANGED <<window_pos, window_state>>
                [] e.type = "MouseMove" /\ "LeftButton" \in e.buttons
                      /\ _drag_pos # None ->
                      /\ Minus(e.pos, window_pos') = _drag_pos
                      /\ UNCHANGED <<_drag_pos, window_state>>
                [] e.type = "MouseButtonRelease" ->
                      /\ _drag_pos' = None
                      /\ UNCHANGED <<window_pos, window_state>>
                [] e.type = "MouseButtonDblClick" /\ e.button = "LeftButton" ->
                      /\ ("WindowMaximized" \in window_state') = ~maximized
                      /\ UNCHANGED <<window_pos, _drag_pos>>
                [] OTHER -> UNCHANGED chrome]_vars

\* the window was dragged: the button is still held and the window has moved
C20_Witness ==
    /\ out.op = "event" /\ out.ev.type = "MouseMove" /\ out.filtered
    /\ _drag_pos = Point(1, 1)
    /\ window_pos = Point(1, 0)
    /\ out.ev.pos = Point(2, 1)

(***************************************************************************)
(* Text files: a text is saved, a file is opened.                          *)
(***************************************************************************)
\* the longest text saved and the longest file opened
MaxText == 2
MaxFile == 2

\* the characters of the texts saved: a digit, the two line ends and a
\* character outside ASCII
CodecChars == {"1", "\n", "\r", "U+00E9"}
\* the bytes of the files opened: UTF-8, and what is not UTF-8
FileBytes == {"1", "\n", "\r", "C3", "A9", "FF"}

\* The text handed to the write is any string over CodecChars and the file
\* handed to the read is any string of FileBytes: an untitled text beside
\* an empty file, or an empty window beside a file.
InitCodec ==
    /\ \E t \in SeqsUpTo(CodecChars, MaxText), b \in SeqsUpTo(FileBytes, MaxFile) :
          /\ t = <<>> \/ b = <<>>
          /\ text = t
          /\ modified = (t # <<>>)
          /\ title = [name |-> "Untitled", star |-> (t # <<>>), app |-> APP_NAME]
          /\ disk = [p \in Paths |-> IF p = PathA THEN File(b) ELSE NoFile]
    /\ anchor = 0
    /\ position = 0
    /\ current_path = None
    /\ recent = <<>>
    /\ closed = FALSE
    /\ out = NoOut("init")
    /\ pc = "idle"
    /\ InitWindow

NextCodec ==
    \/ FileSave
    \/ FileSaveAs
    \/ FileOpen

SpecCodec == InitCodec /\ [][NextCodec]_vars

(***************************************************************************)
(* The properties of text files, checked under SpecCodec.                  *)
(***************************************************************************)
\* C15: opening a picked file always ends with the file's text in the
\* editor: its UTF-8 decoding or, when it is not UTF-8, its cp949 decoding
\* with replacement characters; no failure of the read leaves the handler.
C15_ReadNeverFails ==
    [][(out'.op = "open" /\ out'.open_dlg = "picked") =>
          /\ ~out'.raised
          /\ out'.done
          /\ LET b == disk'[current_path'].data
                 d == utf8_decode(b)
             IN  text' = newline_in(IF d.ok THEN d.text
                                    ELSE cp949_decode_replace(b))]_vars

InitStep ==
    /\ text \in SeqsUpTo(Chars, MaxDoc)
    /\ anchor \in 0..Len(text)
    /\ position = anchor
    /\ modified = FALSE
    /\ current_path = PathA
    /\ title = [name |-> basename(PathA), star |-> FALSE, app |-> APP_NAME]
    /\ disk = [p \in Paths |-> IF p = PathA THEN File(f_write(text)) ELSE NoFile]
    /\ recent = <<PathA>>
    /\ closed = FALSE
    /\ out = NoOut("init")
    /\ pc = "idle"
    /\ InitWindow

\* the first click of Replace: the query is typed into the dialog
StepQueries == IF out.op = "init" THEN {q \in Queries : q.find # <<>>} ELSE {}

\* a replacement can make the document longer; Replace is clicked again
\* while the document is no longer than twice MaxDoc
ReplaceAgain ==
    /\ Idle
    /\ out.op = "replace"
    /\ Len(text) <= 2 * MaxDoc
    /\ Install(do_replace([Cur EXCEPT !.out = NoOut("replace")], out.q))
    /\ UNCHANGED pc

NextStep ==
    \/ Replace(StepQueries)
    \/ ReplaceAgain

SpecStep == InitStep /\ [][NextStep]_vars

\* the occurrence a search from position from arrives at: the first one at
\* or after from, or else the first one of the document
NextOccurrence(t, pat, opts, from) ==
    LET occ == Occurrences(t, pat, opts)
        ahead == {i \in occ : i >= from}
    IN  IF ahead # {} THEN Least(ahead) ELSE Least(occ)

\* the replacement holds nothing the pattern matches
Consumes(q) == q.repl \in {<<>>, <<"b", "b">>}

\* C17: each click of Replace replaces the occurrence the click before has
\* selected (the first click: the occurrence next to the cursor, searched
\* with wrap-around) and selects the occurrence that follows the
\* replacement, wrapping at the end; it reports no match exactly when no
\* occurrence is left; and when the replacement holds no match of the
\* pattern, every replacement leaves fewer occurrences than there were, so
\* that clicking on arrives at the report of no match.
C17_ReplaceStepsThrough ==
    [][out'.op = "replace" =>
          LET q == out'.q
              occ == Occurrences(text, q.find, q.opts)
              hit == IF anchor # position THEN Min(anchor, position)
                     ELSE IF occ # {} THEN NextOccurrence(text, q.find, q.opts, position)
                     ELSE -1
          IN  IF hit = -1
              THEN /\ text' = text
                   /\ out'.found = "no" /\ out'.info = "nomatch" /\ out'.count = 0
              ELSE /\ hit \in occ
                   /\ text' = Subst(text, hit, q.find, q.repl)
                   /\ out'.count = 1
                   /\ LET occ2 == Occurrences(text', q.find, q.opts)
                      IN  /\ Consumes(q) => Cardinality(occ2) < Cardinality(occ)
                          /\ IF occ2 = {}
                             THEN out'.found = "no" /\ out'.info = "nomatch"
                             ELSE LET nxt == NextOccurrence(text', q.find, q.opts,
                                                            hit + Len(q.repl))
                                  IN  /\ out'.found = "yes"
                                      /\ anchor' = nxt
                                      /\ position' = nxt + Len(q.find)]_vars

\* both "a" of "a a" were replaced, the second after a wrap-around, and
\* the click that replaced the last one reported no match
C17_Witness ==
    /\ out.op = "replace" /\ out.found = "no" /\ out.count = 1 /\ out.wrapped
    /\ out.q.find = <<"a">> /\ out.q.repl = <<"b", "b">>
    /\ text = <<"b", "b", " ", "b", "b">>

(***************************************************************************)
(* The registry of recent documents, checked under Spec.                   *)
(***************************************************************************)
FileOps == {"new", "open", "save", "save_as", "exit"}

\* the window after the handler of op has run with the inputs io
Run(op, io) ==
    LET s == [Cur EXCEPT !.out = NoOut(op)]
    IN  CASE op = "new" -> file_new(s, io)
          [] op = "open" -> file_open(s, io)
          [] op = "save" -> file_save(s, io).s
          [] op = "save_as" -> file_save_as(s, io).s
          [] op = "exit" -> exit_triggered(s, io)

\* the registry with p registered
Registered(r, p) == Append(SelectSeq(r, LAMBDA q : q # p), p)

\* all but the registry
Forget(s) == [s EXCEPT !.recent = <<>>, !.out.registered = <<>>]

\* C18: whatever the file operation and its inputs, the paths registered
\* are the path of the write that succeeded and the path of the file that
\* was opened, in that order, and no others (none after a failed write or a
\* dismissed picker); no path leaves the registry; and when the
\* registration fails nothing is registered and the operation ends in the
\* state, with the result, that it ends in when the registration works.
C18_RecentRegistry ==
    Idle =>
        \A op \in FileOps : \A io \in InputsFor(op) :
            io.reg =>
                LET a == Run(op, io)
                    b == Run(op, [io EXCEPT !.reg = FALSE])
                    saved == IF a.out.wrote # None THEN <<a.out.wrote>> ELSE <<>>
                    opened == IF op = "open" /\ a.out.done
                              THEN <<a.current_path>> ELSE <<>>
                    paths == saved \o opened
                IN  /\ a.out.registered = paths
                    /\ a.recent = (IF Len(paths) = 0 THEN recent
                                   ELSE IF Len(paths) = 1 THEN Registered(recent, paths[1])
                                   ELSE Registered(Registered(recent, paths[1]), paths[2]))
                    /\ \A i \in 1..Len(recent) : \E j \in 1..Len(a.recent) :
                          a.recent[j] = recent[i]
                    /\ a.out.error => saved = <<>> /\ paths = <<>>
                    /\ a.out.save_dlg = "cancel" => paths = <<>>
                    /\ a.out.open_dlg = "cancel" => opened = <<>>
                    /\ b.out.registered = <<>>
                    /\ b.recent = recent
                    /\ Forget(b) = Forget(a)

\* a file was opened and its registration failed: the file is shown, the
\* registry is empty
C18_Witness ==
    /\ out.op = "open" /\ out.done
    /\ current_path = PathA
    /\ out.registered = <<>>
    /\ recent = <<>>

(***************************************************************************)
(* The title, checked under Spec.                                          *)
(***************************************************************************)
\* C21: between the user's actions the title shows the base name of the
\* current path, or "Untitled" when there is none, with the star exactly
\* when the document is modified; so the file the title names is the file
\* the next Save writes to, after a Save As that failed as well.
C21_TitleShowsSession ==
    Idle =>
        /\ title.name = (IF current_path # None THEN basename(current_path)
                         ELSE "Untitled")
        /\ title.star = modified
        /\ title.app = APP_NAME

(***************************************************************************)
(* Find in "concatenate cat" with the two check boxes.                     *)
(***************************************************************************)
ConcatenateCat ==
    <<"c", "o", "n", "c", "a", "t", "e", "n", "a", "t", "e", " ", "c", "a", "t">>

WordPatterns == {<<"c", "a", "t">>, <<"C", "A", "T">>}

\* the document was opened; the cursor or a selection is anywhere in it
InitWord ==
    /\ text = ConcatenateCat
    /\ anchor \in 0..Len(text)
    /\ position \in 0..Len(text)
    /\ modified = FALSE
    /\ current_path = PathA
    /\ title = [name |-> basename(PathA), star |-> FALSE, app |-> APP_NAME]
    /\ disk = [p \in Paths |-> IF p = PathA THEN File(f_write(text)) ELSE NoFile]
    /\ recent = <<PathA>>
    /\ closed = FALSE
    /\ out = NoOut("init")
    /\ pc = "idle"
    /\ InitWindow

\* the Find dialog accepted with a pattern and the check boxes set
FindWord ==
    /\ Idle
    /\ \E pat \in WordPatterns, c \in BOOLEAN, w \in BOOLEAN :
          Install(find_dialog([Cur EXCEPT !.out = [NoOut("find_word") EXCEPT
                                                      !.chk_case = c, !.chk_word = w]],
                              [find |-> pat, repl |-> <<>>, opts |-> options(c, w)]))
    /\ UNCHANGED pc

NextWord == FindWord

SpecWord == InitWord /\ [][NextWord]_vars

\* C22: the search is called with FindCaseSensitively exactly when "Match
\* case" is checked and with FindWholeWords exactly when "Whole word" is
\* checked, in each of the four combinations; in "concatenate cat" a search
\* for "cat" with "Whole word" checked selects the last word and never the
\* "cat" inside "concatenate", without it the nearer of the two; and "CAT"
\* is found as "cat" is unless "Match case" is checked, when it is not found.
C22_IndependentToggles ==
    [][out'.op = "find_word" =>
          LET from == Max(anchor, position)
              cased == out'.q.find = <<"C", "A", "T">> /\ out'.chk_case
              inside == ~out'.chk_word /\ from <= 3
          IN  /\ ("FindCaseSensitively" \in out'.flags) = out'.chk_case
              /\ ("FindWholeWords" \in out'.flags) = out'.chk_word
              /\ out'.flags \subseteq {"FindCaseSensitively", "FindWholeWords"}
              /\ IF cased THEN out'.found = "no"
                 ELSE /\ out'.found = "yes"
                      /\ anchor' = (IF inside \/ (~out'.chk_word /\ from > 12)
                                    THEN 3 ELSE 12)
                      /\ position' = anchor' + 3]_vars

\* "cat" searched as a whole word from the start: the last word is selected
C22_Witness ==
    /\ out.op = "find_word" /\ out.chk_word /\ ~out.chk_case
    /\ out.q.find = <<"c", "a", "t">>
    /\ out.found = "yes" /\ ~out.wrapped
    /\ anchor = 12 /\ position = 15

====
